---------------------------- MODULE Spec2Model ----------------------------
(***************************************************************************)
(* GenDatasetImages: the parameter expander (src/src/generator.py), the    *)
(* dataset writer (src/src/dataset_builder.py), the dataset store          *)
(* (src/src/dataset_manager.py) and the generation run (src/app.py,        *)
(* src/src/generator.py), each as a state machine with a specification of  *)
(* its own:                                                                *)
(*   SpecExpand   generate_parameter_combinations and its iteration        *)
(*   SpecWriter   one DatasetBuilder: add_image, finalize_dataset          *)
(*   SpecStore    one DatasetManager over the active and archive regions   *)
(*   SpecPipe     one generation run: generation_worker / run_generation   *)
(* A specification moves only the variables of its component; the others   *)
(* keep their initial value.                                               *)
(***************************************************************************)
EXTENDS Integers, Sequences, FiniteSets, TLC

VARIABLES
    \* ---- parameter expander
    base_params,      \* the base ParameterSet: a function key -> value
    variations,       \* the VariationSpec: a sequence of [key, values], keys distinct
    param_combinations, \* the generator object: [state, rest, again]
    yielded,          \* what the for loop has received from the generator so far
    \* ---- dataset writer (DatasetBuilder)
    image_count,      \* self.image_count
    images_dir,       \* the files of the images directory: filename -> bytes
    metadata_log,     \* metadata.jsonl: one record per line
    file_lock,        \* self._file_lock: "free" or the thread holding it
    wpc,              \* per thread: where it is inside add_image / finalize_dataset
    wcall,            \* per thread: the arguments and locals of its add_image call
    wstats,           \* bookkeeping of the calls made so far
    finalize_result,  \* what finalize_dataset returned
    \* ---- dataset store (DatasetManager)
    active,           \* the entries of base_dir (but archive/ and tmp/): id -> node
    archive,          \* the entries of base_dir/archive: id -> node
    scratch,          \* base_dir/tmp/import_temp: [exists, entries]
    clock,            \* datetime.now(), in seconds
    store_op,         \* the last DatasetManager call and how it ended
    store_calls,      \* the number of DatasetManager calls and clock ticks so far
    \* ---- generation run (generation_worker / run_generation)
    run_input,        \* [entry, base, variations]: who runs it and on what
    worker_pc,        \* where the run is in its code
    worker,           \* its locals: param_combinations, total_combinations, i, the counts
    sent,             \* the ParameterSets passed to client.generate_image so far
    events,           \* what was put on the queue (UI) or printed (CLI), in order
    outcome,          \* "none" while it runs, then how it ended
    cancel_flag,      \* the cancellation request of the specification
    \* ---- the foreground script of app.py (the observer)
    observer          \* its session state, where it is, and what it took from the queue

expandVars == <<base_params, variations, param_combinations, yielded>>
writerVars == <<image_count, images_dir, metadata_log, file_lock, wpc, wcall, wstats, finalize_result>>
storeVars == <<active, archive, scratch, clock, store_op, store_calls>>
pipeVars == <<run_input, worker_pc, worker, sent, events, outcome, cancel_flag, observer>>
vars == <<expandVars, writerVars, storeVars, pipeVars>>

\* Python's min.
Min(a, b) == IF a <= b THEN a ELSE b

\* A function with an empty domain (an empty dict, an empty directory).
EmptyMap == <<>>

(***************************************************************************)
(* Parameter expander: generate_parameter_combinations                     *)
(***************************************************************************)

\* The longest list of candidate values an axis is given here.
MaxAxisLen == 2

\* Parameter names that may be varied, and the values each may take.
AxisKeys == {"seed", "cfg", "steps"}
AxisDomain(k) ==
    CASE k = "seed" -> {"1", "2"}
      [] k = "cfg" -> {"5", "7"}
      [] OTHER -> {"20"}

\* Every list of at most MaxAxisLen values of axis k (repeats allowed, the empty
\* list included).
AxisLists(k) == UNION {[1..n -> AxisDomain(k)] : n \in 0..MaxAxisLen}

\* Every ordered choice of distinct axis keys (a dict keeps insertion order and
\* has no repeated key).
KeyOrders ==
    {ks \in UNION {[1..n -> AxisKeys] : n \in 0..Cardinality(AxisKeys)} :
        \A i, j \in 1..Len(ks) : i # j => ks[i] # ks[j]}

\* Every VariationSpec over those keys.
VariationSpecs ==
    UNION {
        {[i \in 1..Len(ks) |-> [key |-> ks[i], values |-> vs[i]]] :
            vs \in {f \in [1..Len(ks) -> UNION {AxisLists(k) : k \in AxisKeys}] :
                        \A i \in 1..Len(ks) : f[i] \in AxisLists(ks[i])}}
        : ks \in KeyOrders}

\* Base ParameterSets: one that no axis overrides entirely, one with a key
\* ("seed", "steps") an axis may override.
BaseSets ==
    {[k \in {"prompt", "steps"} |-> IF k = "prompt" THEN "p" ELSE "10"],
     [k \in {"prompt", "steps", "seed"} |->
        CASE k = "prompt" -> "p" [] k = "steps" -> "10" [] OTHER -> "9"]}

\* [x + [y] for y in pool]
AppendEach(x, pool) == [b \in 1..Len(pool) |-> Append(x, pool[b])]

\* [x + [y] for x in result for y in pool]
RECURSIVE ExtendAll(_, _)
ExtendAll(result, pool) ==
    IF result = <<>> THEN <<>>
    ELSE AppendEach(Head(result), pool) \o ExtendAll(Tail(result), pool)

\* A plausible slip: the new axis is the outer loop, so it varies slowest.
RECURSIVE ExtendAllOuter(_, _)
ExtendAllOuter(result, pool) ==
    IF pool = <<>> THEN <<>>
    ELSE [a \in 1..Len(result) |-> Append(result[a], Head(pool))]
            \o ExtendAllOuter(result, Tail(pool))

\* One step of itertools.product's pool loop.
ProductStep(result, pool) == ExtendAll(result, pool)

\* itertools.product(*pools): result = [[]]; for pool in pools: result = [x + [y] ...]
RECURSIVE ProductFrom(_, _)
ProductFrom(result, pools) ==
    IF pools = <<>> THEN result
    ELSE ProductFrom(ProductStep(result, Head(pools)), Tail(pools))

Product(pools) == ProductFrom(<<(<<>>)>>, pools)

\* dict(zip(variation_keys, value_combination)) laid over base_params.copy().
Overlay(base, keys, combo) ==
    [k \in (DOMAIN base) \cup {keys[i] : i \in 1..Len(keys)} |->
        IF \E i \in 1..Len(keys) : keys[i] = k
        THEN combo[CHOOSE i \in 1..Len(keys) : keys[i] = k]
        ELSE base[k]]

\* A plausible slip: the base value wins over the variation value.
OverlayBaseWins(base, keys, combo) ==
    [k \in (DOMAIN base) \cup {keys[i] : i \in 1..Len(keys)} |->
        IF k \in DOMAIN base THEN base[k]
        ELSE combo[CHOOSE i \in 1..Len(keys) : keys[i] = k]]

\* current_params = base_params.copy(); current_params.update(variation_dict)
CurrentParams(base, keys, combo) == Overlay(base, keys, combo)

\* The sequence of ParameterSets the generator yields, in order.
GenerateParameterCombinations(base, vspec) ==
    IF vspec = <<>> THEN <<base>>
    ELSE LET variation_keys == [i \in 1..Len(vspec) |-> vspec[i].key]
             variation_values == [i \in 1..Len(vspec) |-> vspec[i].values]
             combos == Product(variation_values)
         IN [p \in 1..Len(combos) |-> CurrentParams(base, variation_keys, combos[p])]

\* The expander's variables before any call.
ExpandIdle ==
    /\ base_params = EmptyMap
    /\ variations = <<>>
    /\ param_combinations = [state |-> "none", rest |-> <<>>, again |-> <<>>]
    /\ yielded = <<>>

InitExpandInputs ==
    /\ base_params \in BaseSets
    /\ variations \in VariationSpecs
    /\ param_combinations = [state |-> "none", rest |-> <<>>, again |-> <<>>]
    /\ yielded = <<>>

\* param_combinations = generate_parameter_combinations(base, variations): the
\* generator object is created; its body has not run yet.
ExpandCall ==
    /\ param_combinations.state = "none"
    /\ param_combinations' =
          [state |-> "created",
           rest |-> GenerateParameterCombinations(base_params, variations),
           again |-> <<>>]
    /\ UNCHANGED <<base_params, variations, yielded>>

\* One next() of the for loop: the generator yields its next ParameterSet.
ExpandYield ==
    /\ param_combinations.state \in {"created", "suspended"}
    /\ param_combinations.rest # <<>>
    /\ yielded' = Append(yielded, Head(param_combinations.rest))
    /\ param_combinations' =
          [state |-> "suspended", rest |-> Tail(param_combinations.rest), again |-> <<>>]
    /\ UNCHANGED <<base_params, variations>>

\* The next() after the last yield: the generator returns (StopIteration).
ExpandExhaust ==
    /\ param_combinations.state \in {"created", "suspended"}
    /\ param_combinations.rest = <<>>
    /\ param_combinations' = [state |-> "exhausted", rest |-> <<>>, again |-> <<>>]
    /\ UNCHANGED <<base_params, variations, yielded>>

\* Another implementation: the call returns a list, every iteration starts over.
SecondPassStartsOver(rest, base, vspec) == GenerateParameterCombinations(base, vspec)

\* What a second iteration of the same generator object receives: a generator
\* is its own iterator, so it goes on from where the object is.
SecondPass(rest, base, vspec) == rest

\* A second for loop over the generator object, after the first one ended;
\* `again` keeps what it received.
ExpandIterateAgain ==
    /\ param_combinations.state = "exhausted"
    /\ param_combinations' =
          [state |-> "reiterated", rest |-> <<>>,
           again |-> SecondPass(param_combinations.rest, base_params, variations)]
    /\ UNCHANGED <<base_params, variations, yielded>>

(***************************************************************************)
(* Dataset writer: DatasetBuilder                                          *)
(***************************************************************************)

\* The number of add_image calls made on one DatasetBuilder here.
MaxCalls == 3

\* Threads that may call into one DatasetBuilder.
WThreads == {"t1", "t2"}

\* Image payloads; "" is the empty payload.
NoBytes == ""
ImageBytes == {"b1", "b2"}

\* hashlib.sha1(image_bytes).hexdigest()[:8], taken as injective on ImageBytes.
Sha1Prefix(bytes) == CASE bytes = "b1" -> "a9993e36" [] bytes = "b2" -> "11f6ad8e" [] OTHER -> "da39a3ee"

\* One word of a prompt after .lower() and after dropping every character that
\* is neither alphanumeric nor an underscore.
CleanWord(w) ==
    CASE w = "A" -> "a"
      [] w = "b!" -> "b"
      [] w = "!" -> ""
      [] OTHER -> w

\* "_".join(prompt_str.split()[:3]).lower(), cleaned: the words as a sequence;
\* the joined string is empty exactly when there is no word or one empty word.
PromptPrefix(prompt) ==
    LET first == [i \in 1..Min(3, Len(prompt)) |-> CleanWord(prompt[i])]
    IN IF first = <<"">> THEN <<>> ELSE first

\* metadata['request_parameters']: absent, present but no mapping, or a mapping
\* whose seed and cfg_scale may be absent ("absent").
RequestParams(kind, seed, cfg, prompt) ==
    [kind |-> kind, seed |-> seed, cfg |-> cfg, prompt |-> prompt]
MetaGood == RequestParams("map", "1", "7", <<"a", "b", "c", "d">>)
MetaSamePrefix == RequestParams("map", "1", "7", <<"A", "b!", "c", "e">>)
MetaOtherSeed == RequestParams("map", "2", "7", <<"a", "b", "c", "d">>)
MetaNoPrompt == RequestParams("map", "absent", "absent", <<>>)
MetaMissing == RequestParams("missing", "absent", "absent", <<>>)
MetaNotMap == RequestParams("notmap", "absent", "absent", <<>>)
MetaSet == {MetaGood, MetaSamePrefix, MetaOtherSeed, MetaNoPrompt, MetaMissing, MetaNotMap}

\* The metadata the writer specification passes to add_image.
WriterMetas == {MetaGood, MetaSamePrefix, MetaNotMap}

\* A filename: the descriptive form img_s<seed>_cfg<cfg>_<prefix>_<hash>.png or
\* the sequential form image_<n>.png.
Filename(kind, seed, cfg, prefix, hash, n) ==
    [kind |-> kind, seed |-> seed, cfg |-> cfg, prefix |-> prefix, hash |-> hash, n |-> n]
NoFilename == Filename("none", "", "", <<>>, "", 0)
SequentialName(n) == Filename("image", "", "", <<>>, "", n)

\* .get(key, 'unknown')
GetOrUnknown(v) == IF v = "absent" THEN "unknown" ELSE v

\* A plausible slip: the digest of the bytes is left out of the parts.
DescriptiveWithoutDigest(count, bytes, rp) ==
    IF rp.kind = "notmap" THEN SequentialName(count)
    ELSE Filename("img", GetOrUnknown(rp.seed), GetOrUnknown(rp.cfg),
                  PromptPrefix(rp.prompt), "", 0)

\* A plausible slip: metadata without request_parameters is treated like a
\* failed derivation.
SequentialWhenMissing(count, bytes, rp) ==
    IF rp.kind \in {"notmap", "missing"} THEN SequentialName(count)
    ELSE Filename("img", GetOrUnknown(rp.seed), GetOrUnknown(rp.cfg),
                  PromptPrefix(rp.prompt), Sha1Prefix(bytes), 0)

\* The try block of _generate_filename: the descriptive name, or the sequential
\* base_name when the block raises (request_parameters is no mapping).
DescriptiveOrSequential(count, bytes, rp) ==
    IF rp.kind = "notmap" THEN SequentialName(count)
    ELSE Filename("img", GetOrUnknown(rp.seed), GetOrUnknown(rp.cfg),
                  PromptPrefix(rp.prompt), Sha1Prefix(bytes), 0)

\* What an IOError on the image write leads to: the except clause of add_image
\* prints and the call returns without appending.
AfterWriteError == "idle"

\* A plausible slip: the write error is swallowed and the record appended anyway.
AfterWriteErrorAppend == "lock"

\* Where add_image goes when writing the image file raised IOError.
WriteErrorNext == AfterWriteError

\* The writer's variables before any call (a fresh DatasetBuilder).
WriterIdle ==
    /\ image_count = 0
    /\ images_dir = EmptyMap
    /\ metadata_log = <<>>
    /\ file_lock = "free"
    /\ wpc = [t \in WThreads |-> "idle"]
    /\ wcall = [t \in WThreads |->
                  [bytes |-> NoBytes, metadata |-> MetaMissing, tmp |-> 0,
                   filename |-> NoFilename]]
    /\ wstats = [calls |-> 0, nonempty |-> 0, io_faults |-> 0, persisted |-> 0,
                 named |-> <<>>]
    /\ finalize_result = "not_called"

\* The file `name` now holds `bytes` (created or overwritten).
WriteFile(dir, name, bytes) ==
    [f \in (DOMAIN dir) \cup {name} |-> IF f = name THEN bytes ELSE dir[f]]

\* add_image(image_bytes, metadata): empty bytes are skipped with a warning;
\* otherwise the call enters _generate_filename.
AddImageCall(t, bytes, rp) ==
    /\ wpc[t] = "idle"
    /\ wstats.calls < MaxCalls
    /\ IF bytes = NoBytes
       THEN /\ wstats' = [wstats EXCEPT !.calls = @ + 1]
            /\ UNCHANGED <<wpc, wcall>>
       ELSE /\ wstats' = [wstats EXCEPT !.calls = @ + 1, !.nonempty = @ + 1]
            /\ wcall' = [wcall EXCEPT ![t] =
                  [bytes |-> bytes, metadata |-> rp, tmp |-> 0, filename |-> NoFilename]]
            /\ wpc' = [wpc EXCEPT ![t] = "gen_read"]
    /\ UNCHANGED <<image_count, images_dir, metadata_log, file_lock, finalize_result>>

\* self.image_count += 1, the read half.
GenRead(t) ==
    /\ wpc[t] = "gen_read"
    /\ wcall' = [wcall EXCEPT ![t].tmp = image_count]
    /\ wpc' = [wpc EXCEPT ![t] = "gen_write"]
    /\ UNCHANGED <<image_count, images_dir, metadata_log, file_lock, wstats, finalize_result>>

\* self.image_count += 1, the write half.
GenWrite(t) ==
    /\ wpc[t] = "gen_write"
    /\ image_count' = wcall[t].tmp + 1
    /\ wpc' = [wpc EXCEPT ![t] = "gen_name"]
    /\ UNCHANGED <<images_dir, metadata_log, file_lock, wcall, wstats, finalize_result>>

\* The rest of _generate_filename: base_name from self.image_count, then the
\* try block. wstats.named keeps, per call, the payload, the metadata and the
\* name returned.
GenName(t) ==
    /\ wpc[t] = "gen_name"
    /\ LET name == DescriptiveOrSequential(image_count, wcall[t].bytes, wcall[t].metadata)
       IN /\ wcall' = [wcall EXCEPT ![t].filename = name]
          /\ wstats' = [wstats EXCEPT !.named = Append(@,
                [bytes |-> wcall[t].bytes, metadata |-> wcall[t].metadata,
                 filename |-> name])]
    /\ wpc' = [wpc EXCEPT ![t] = "write"]
    /\ UNCHANGED <<image_count, images_dir, metadata_log, file_lock, finalize_result>>

\* with open(filepath, "wb") as f: f.write(image_bytes), which may raise
\* IOError; on success metadata gets 'filename' and 'filepath'.
WriteImage(t) ==
    /\ wpc[t] = "write"
    /\ \E ok \in BOOLEAN :
        IF ok
        THEN /\ images_dir' = WriteFile(images_dir, wcall[t].filename, wcall[t].bytes)
             /\ wstats' = [wstats EXCEPT !.persisted = @ + 1]
             /\ wpc' = [wpc EXCEPT ![t] = "lock"]
        ELSE /\ wstats' = [wstats EXCEPT !.io_faults = @ + 1]
             /\ wpc' = [wpc EXCEPT ![t] = WriteErrorNext]
             /\ UNCHANGED images_dir
    /\ UNCHANGED <<image_count, metadata_log, file_lock, wcall, finalize_result>>

\* _append_metadata: with self._file_lock (acquire).
AcquireLock(t) ==
    /\ wpc[t] = "lock"
    /\ file_lock = "free"
    /\ file_lock' = t
    /\ wpc' = [wpc EXCEPT ![t] = "append"]
    /\ UNCHANGED <<image_count, images_dir, metadata_log, wcall, wstats, finalize_result>>

\* An exception inside the with block leaves through the lock's __exit__
\* without releasing it.
ErrorSkipsRelease(ok) == IF ok THEN "unlock" ELSE "idle"

\* Where the thread goes after the body of "with self._file_lock": the with
\* statement sits inside the try, so both the normal and the exceptional exit
\* pass through the release.
AfterAppend(ok) == "unlock"

\* open(metadata_path, 'a') and f.write(json_record + '\n'), which may raise
\* IOError (caught and printed inside _append_metadata).
AppendLine(t) ==
    /\ wpc[t] = "append"
    /\ \E ok \in BOOLEAN :
        IF ok
        THEN /\ metadata_log' = Append(metadata_log,
                    [filename |-> wcall[t].filename, metadata |-> wcall[t].metadata])
             /\ wpc' = [wpc EXCEPT ![t] = AfterAppend(ok)]
             /\ UNCHANGED wstats
        ELSE /\ wstats' = [wstats EXCEPT !.io_faults = @ + 1]
             /\ UNCHANGED metadata_log
             /\ wpc' = [wpc EXCEPT ![t] = AfterAppend(ok)]
    /\ UNCHANGED <<image_count, images_dir, file_lock, wcall, finalize_result>>

\* Leaving the with block releases the lock, on the normal and the error path.
ReleaseLock(t) ==
    /\ wpc[t] = "unlock"
    /\ file_lock' = "free"
    /\ wpc' = [wpc EXCEPT ![t] = "idle"]
    /\ UNCHANGED <<image_count, images_dir, metadata_log, wcall, wstats, finalize_result>>

\* finalize_dataset(): None when image_count is 0, else metadata_path (with or
\* without the get_dataset_info report, whose exceptions are caught).
FinalizeDataset(t) ==
    /\ wpc[t] = "idle"
    /\ finalize_result = "not_called"
    /\ finalize_result' = IF image_count = 0 THEN "none" ELSE "metadata_path"
    /\ wpc' = [wpc EXCEPT ![t] = "finalized"]
    /\ UNCHANGED <<image_count, images_dir, metadata_log, file_lock, wcall, wstats>>


(***************************************************************************)
(* Dataset store: DatasetManager                                           *)
(***************************************************************************)

\* The last second the clock reaches here.
MaxClock == 2
\* The number of steps (DatasetManager calls and clock ticks) taken here.
MaxStoreCalls == 4
\* The most records a generation run leaves in a dataset here.
MaxRecords == 4

\* The lines get_dataset_info reads for its metadata sample: range(3).
SampleSize == 3

\* A name is its underscore-separated parts: "foo" is <<"foo">>, "foo_bar" is
\* <<"foo", "bar">>. Dataset names the callers use:
StoreNames == {<<"foo">>, <<"foo", "bar">>}
\* Names a lookup may be given.
LookupNames == StoreNames
NoName == <<>>
\* What import_dataset may be given as new_name (NoName: not given).
ImportNames == {NoName, <<"foo">>}

\* datetime.now().strftime("%Y%m%d_%H%M%S"): two parts, the date and the time.
Timestamp(now) == <<"20240101", ToString(now)>>

\* An entry's name: its parts and its extension; "foo_20240101_1" is
\* [parts |-> <<"foo", "20240101", "1">>, ext |-> ""].
EntryId(parts, ext) == [parts |-> parts, ext |-> ext]
\* f"{dataset_name}_{timestamp}"
DatasetId(name, now) == EntryId(name \o Timestamp(now), "")
\* f"{dataset_name}.zip"
ZipId(name) == EntryId(name, ".zip")

\* What the store sees of an entry: a directory or a file; for a directory the
\* number of *.png in its images/ subdirectory (-1: no such subdirectory), the
\* lines of its metadata.jsonl (-1: no such file), the *.png lying directly in
\* it and the directories moved into it; for a zip file the same counts of its
\* root; for a plain file its lines (meta) or that it is one png (pngs).
Node(kind, images, meta, pngs, child) ==
    [kind |-> kind, images |-> images, meta |-> meta, pngs |-> pngs, child |-> child]
IsDir(node) == node.kind = "dir"

\* len(list((dataset_dir / "images").glob("*.png"))), 0 without images/.
ImageCount(node) == IF IsDir(node) /\ node.images >= 0 THEN node.images ELSE 0
\* (dataset_dir / "metadata.jsonl").exists()
HasMetadata(node) == IsDir(node) /\ node.meta >= 0

Put(region, id, node) ==
    [e \in (DOMAIN region) \cup {id} |-> IF e = id THEN node ELSE region[e]]
Remove(region, id) == [e \in (DOMAIN region) \ {id} |-> region[e]]

\* Whether glob(f"{name}_*") matches the entry: its text starts with the name
\* followed by an underscore.
GlobMatches(name, id) ==
    /\ Len(id.parts) > Len(name)
    /\ SubSeq(id.parts, 1, Len(name)) = name

\* A plausible slip: the underscore is left out of the pattern's tail, so any
\* entry under that name matches, such as "<name>.zip".
GlobMatchesLoose(name, id) ==
    /\ Len(id.parts) >= Len(name)
    /\ SubSeq(id.parts, 1, Len(name)) = name

\* region.glob(f"{dataset_name}_*"): the entries it may yield first.
Glob(region, name) == {id \in DOMAIN region : GlobMatches(name, id)}

\* The record of a DatasetManager call: what was called, on which name, how it
\* ended (err = "" for a normal return) and what it returned or touched; moved
\* is the directory the archive_dataset inside delete_dataset moved, zip the
\* zip file an export wrote or an import read, selected the entry chosen on
\* the management page when the call came from there.
NoId == EntryId(<<>>, "")
OpRecord(op, name, err, id, status, count, sample) ==
    [op |-> op, name |-> name, err |-> err, id |-> id, status |-> status,
     image_count |-> count, sample |-> sample,
     src_images |-> -1, src_meta |-> -1, after_archive |-> FALSE, prev_count |-> -1,
     flag |-> FALSE, moved |-> NoId, zip |-> NoId, selected |-> NoId]
Raised(op, name, err) == OpRecord(op, name, err, NoId, "", -1, -1)
Returned(rec) == rec.err = ""

\* The store's variables after DatasetManager.__init__ on an empty base_dir.
StoreIdle ==
    /\ active = EmptyMap
    /\ archive = EmptyMap
    /\ scratch = [exists |-> FALSE, entries |-> {}]
    /\ clock = 1
    /\ store_op = Raised("none", NoName, "")
    /\ store_calls = 0

\* Whether some entry carries the timestamp of second `now`.
Stamped(now) ==
    \E id \in (DOMAIN active) \cup (DOMAIN archive) :
        /\ Len(id.parts) > 2
        /\ SubSeq(id.parts, Len(id.parts) - 1, Len(id.parts)) = Timestamp(now)

\* A second passes (one in which nothing was stamped is not told apart from the
\* next, so the clock is advanced only past a second that was used).
Tick ==
    /\ clock < MaxClock
    /\ Stamped(clock)
    /\ store_calls < MaxStoreCalls
    /\ store_calls' = store_calls + 1
    /\ clock' = clock + 1
    /\ UNCHANGED <<active, archive, scratch, store_op>>

\* DatasetBuilder(name, base_dir): init_dataset (mkdir with exist_ok=True for
\* the dataset directory and for images/) and create_metadata_file (touch unless
\* it exists). flag records whether the directory was created by this call.
InitDataset(name) ==
    LET id == DatasetId(name, clock)
        fresh == id \notin DOMAIN active
        old == IF fresh THEN Node("dir", -1, -1, 0, <<>>) ELSE active[id]
    IN /\ store_calls < MaxStoreCalls
       /\ store_calls' = store_calls + 1
       /\ IF IsDir(old)
          THEN LET images == IF old.images < 0 THEN 0 ELSE old.images
                   meta == IF old.meta < 0 THEN 0 ELSE old.meta
               IN /\ active' = Put(active, id, [old EXCEPT !.images = images, !.meta = meta])
                  /\ store_op' = [OpRecord("init", name, "", id, "active", images, -1)
                                    EXCEPT !.flag = fresh]
          ELSE \* the path exists and is a file: mkdir raises FileExistsError
               /\ active' = active
               /\ store_op' = Raised("init", name, "FileExistsError")
       /\ UNCHANGED <<archive, scratch, clock>>

\* The directories a DatasetBuilder may be bound to: made by init_dataset.
BuilderDirs ==
    {id \in DOMAIN active :
        /\ \E name \in StoreNames, now \in 1..MaxClock : id = DatasetId(name, now)
        /\ IsDir(active[id]) /\ active[id].images >= 0 /\ active[id].meta >= 0}

\* One add_image of the dataset's builder that stores a new image file and
\* appends its line; the run that made the dataset fills it before the store
\* is called again.
AddRecord(id) ==
    /\ id \in BuilderDirs
    /\ store_op.op \in {"init", "add_image"} /\ Returned(store_op) /\ store_op.id = id
    /\ active[id].images < MaxRecords
    /\ active[id].meta < MaxRecords
    /\ active' = [active EXCEPT ![id].images = @ + 1, ![id].meta = @ + 1]
    /\ store_op' = OpRecord("add_image", NoName, "", id, "active", active[id].images + 1, -1)
    /\ UNCHANGED <<archive, scratch, clock, store_calls>>

\* shutil.move(src, dst) of directory `node` named `id` to region[id]: a rename
\* when nothing is there; into the directory that is there (as its child `id`)
\* unless it has such a child already; an error onto a file.
MoveDirOutcome(region, id, node) ==
    IF id \notin DOMAIN region THEN [err |-> "", region |-> Put(region, id, node)]
    ELSE IF IsDir(region[id]) /\ region[id].child = <<>>
         THEN [err |-> "",
               region |-> Put(region, id,
                   [region[id] EXCEPT !.child = <<[images |-> node.images, meta |-> node.meta]>>])]
         ELSE [err |-> "ShutilError", region |-> region]

\* archive_dataset(dataset_name): the first glob match in base_dir, if it is a
\* directory, is moved to archive/ under its own name; else FileNotFoundError.
\* A plausible slip: no else branch, the call returns without having moved
\* anything.
ArchiveMissingSilent(name) == OpRecord("archive", name, "", NoId, "", -1, -1)

\* The else branch of archive_dataset: raise FileNotFoundError.
ArchiveMissing(name) == Raised("archive", name, "FileNotFoundError")

ArchiveOutcomes(name) ==
    IF Glob(active, name) = {}
    THEN {[rec |-> ArchiveMissing(name), active |-> active, archive |-> archive]}
    ELSE {LET node == active[id]
              moved == MoveDirOutcome(archive, id, node)
          IN IF ~IsDir(node)
             THEN [rec |-> ArchiveMissing(name), active |-> active, archive |-> archive]
             ELSE IF moved.err # ""
             THEN [rec |-> Raised("archive", name, moved.err),
                   active |-> active, archive |-> archive]
             ELSE [rec |-> OpRecord("archive", name, "", id, "archived", ImageCount(node), -1),
                   active |-> Remove(active, id), archive |-> moved.region]
          : id \in Glob(active, name)}

ArchiveDataset(name) ==
    /\ store_calls < MaxStoreCalls
    /\ store_calls' = store_calls + 1
    /\ \E out \in ArchiveOutcomes(name) :
          /\ active' = out.active
          /\ archive' = out.archive
          /\ store_op' = out.rec
    /\ UNCHANGED <<scratch, clock>>

\* What make_archive(base, 'zip', root_dir) stores: the contents of the dataset
\* directory at the root of the zip, not the directory itself.
ZipOfContents(node) == Node("zip", node.images, node.meta, node.pngs, node.child)

\* The root entries of a zip, each [name, node]: images/ (its png files), the
\* metadata.jsonl file, a png file.
ZipEntries(zip) ==
    (IF zip.images >= 0
        THEN {[name |-> <<"images">>, node |-> Node("dir", -1, -1, zip.images, <<>>)]} ELSE {})
    \cup (IF zip.meta >= 0
        THEN {[name |-> <<"metadata.jsonl">>, node |-> Node("file", -1, zip.meta, 0, <<>>)]} ELSE {})
    \cup (IF zip.pngs > 0
        THEN {[name |-> <<"img", "png">>, node |-> Node("file", -1, -1, 1, <<>>)]} ELSE {})

\* export_dataset(dataset_name): the first glob match in base_dir is zipped to
\* base_dir/<dataset_name>.zip.
ExportOutcomes(name) ==
    IF Glob(active, name) = {}
    THEN {[rec |-> Raised("export", name, "FileNotFoundError"), active |-> active]}
    ELSE {LET node == active[id]
          IN IF ~IsDir(node)
             THEN [rec |-> Raised("export", name, "NotADirectoryError"), active |-> active]
             ELSE [rec |-> [OpRecord("export", name, "", id, "active", ImageCount(node), -1)
                              EXCEPT !.src_images = node.images, !.src_meta = node.meta,
                                     !.zip = ZipId(name)],
                   active |-> Put(active, ZipId(name), ZipOfContents(node))]
          : id \in Glob(active, name)}

ExportDataset(name) ==
    /\ store_calls < MaxStoreCalls
    /\ store_calls' = store_calls + 1
    /\ \E out \in ExportOutcomes(name) :
          /\ active' = out.active
          /\ store_op' = out.rec
    /\ UNCHANGED <<archive, scratch, clock>>

\* entry.name.split('_')[0]
FirstPart(name) == <<name[1]>>

\* shutil.move(entry, target_dir) into base_dir: a rename when nothing is there;
\* into the directory that is there when it has no entry of that name; onto a
\* file for a file; an error otherwise.
MoveEntryOutcome(region, target, entry) ==
    IF target \notin DOMAIN region THEN [err |-> "", region |-> Put(region, target, entry.node)]
    ELSE LET there == region[target]
         IN IF IsDir(there)
            THEN IF entry.name = <<"images">> /\ there.images < 0
                 THEN [err |-> "", region |-> Put(region, target, [there EXCEPT !.images = entry.node.pngs])]
                 ELSE IF entry.name = <<"metadata.jsonl">> /\ there.meta < 0
                 THEN [err |-> "", region |-> Put(region, target, [there EXCEPT !.meta = entry.node.meta])]
                 ELSE IF entry.name = <<"img", "png">> /\ there.pngs = 0
                 THEN [err |-> "", region |-> Put(region, target, [there EXCEPT !.pngs = 1])]
                 ELSE [err |-> "ShutilError", region |-> region]
            ELSE IF ~IsDir(entry.node)
                 THEN [err |-> "", region |-> Put(region, target, entry.node)]
                 ELSE [err |-> "NotADirectoryError", region |-> region]

\* shutil.unpack_archive may fail on the file it is given (an I/O error, a
\* file that is no archive).
UnpackResults == {"ok", "ReadError"}

\* The scratch directory with `entries` in it, and without the directory.
ScratchWith(entries) == [exists |-> TRUE, entries |-> entries]
NoScratch == [exists |-> FALSE, entries |-> {}]

\* A plausible slip: the cleanup stands after the try block, not in a finally
\* clause, so it runs only when nothing was raised.
ScratchAfterSuccessOnly(left, err) == IF err = "" THEN NoScratch ELSE left

\* The finally clause of import_dataset: if extract_dir.exists(): rmtree, on
\* the normal and on the error path.
ScratchAfter(left, err) == NoScratch

\* import_dataset(zip_path, new_name): FileNotFoundError without the zip file;
\* else unpack into tmp/import_temp, take the first entry found there, name the
\* target after new_name or after the entry's first part, move the entry to the
\* target; finally remove tmp/import_temp. Each outcome: the call's record, the
\* active region, and the scratch directory as the call leaves it.
ImportOutcomes(zip_id, new_name) ==
    IF zip_id \notin DOMAIN active
    THEN {[rec |-> [Raised("import", new_name, "FileNotFoundError") EXCEPT !.zip = zip_id],
           active |-> active, scratch |-> scratch]}
    ELSE LET zip == active[zip_id]
             entries == ZipEntries(zip)
             Failed(err, left) ==
                 [rec |-> [Raised("import", new_name, err) EXCEPT !.zip = zip_id],
                  active |-> active, scratch |-> ScratchAfter(ScratchWith(left), err)]
         IN {Failed("ReadError", {})}
            \cup
            (IF entries = {}
             THEN {Failed("StopIteration", {})}
             ELSE {LET original_name == FirstPart(entry.name)
                       target == DatasetId(IF new_name # NoName THEN new_name ELSE original_name, clock)
                       moved == MoveEntryOutcome(active, target, entry)
                   IN IF moved.err # ""
                      THEN Failed(moved.err, entries)
                      ELSE [rec |-> [OpRecord("import", new_name, "", target, "active", -1, -1)
                                       EXCEPT !.src_images = zip.images, !.src_meta = zip.meta,
                                              !.zip = zip_id],
                            active |-> moved.region,
                            scratch |-> ScratchAfter(ScratchWith(entries \ {entry}), "")]
                   : entry \in entries})

ImportDataset(zip_id, new_name) ==
    /\ store_calls < MaxStoreCalls
    /\ store_calls' = store_calls + 1
    /\ \E out \in ImportOutcomes(zip_id, new_name) :
          /\ active' = out.active
          /\ store_op' = out.rec
          /\ scratch' = out.scratch
    /\ UNCHANGED <<archive, clock>>

\* get_dataset_info(dataset_name): the first glob match in base_dir, else the
\* first in archive/, else FileNotFoundError; the sample reads SampleSize lines
\* with next(f), which raises StopIteration when the log is shorter.
InfoOf(name, id, node, status) ==
    IF HasMetadata(node) /\ node.meta < SampleSize
    THEN Raised("info", name, "StopIteration")
    ELSE OpRecord("info", name, "", id, status, ImageCount(node),
                  IF HasMetadata(node) THEN SampleSize ELSE -1)

InfoOutcomes(name) ==
    IF Glob(active, name) # {}
    THEN {InfoOf(name, id, active[id], "active") : id \in Glob(active, name)}
    ELSE IF Glob(archive, name) # {}
    THEN {InfoOf(name, id, archive[id], "archived") : id \in Glob(archive, name)}
    ELSE {Raised("info", name, "FileNotFoundError")}

GetDatasetInfo(name) ==
    /\ store_calls < MaxStoreCalls
    /\ store_calls' = store_calls + 1
    /\ \E rec \in InfoOutcomes(name) :
          store_op' = [rec EXCEPT
              !.after_archive = (store_op.op = "archive" /\ Returned(store_op)
                                    /\ store_op.name = name),
              !.prev_count = IF store_op.op = "archive" /\ Returned(store_op)
                                   /\ store_op.name = name
                             THEN store_op.image_count ELSE -1]
    /\ UNCHANGED <<active, archive, scratch, clock>>


\* delete_dataset(dataset_name, archive_first): with archive_first the dataset is
\* archived and the first glob match in archive/ is taken, or, when archiving
\* raised FileNotFoundError, the first match in base_dir; without it the first
\* match in base_dir; a directory found is removed, else FileNotFoundError.
DeleteOutcomes(name, archive_first) ==
    LET Gone(act, arc) ==
            [rec |-> Raised("delete", name, "FileNotFoundError"), active |-> act, archive |-> arc]
        FromActive(act, arc) ==
            IF Glob(act, name) = {} THEN {Gone(act, arc)}
            ELSE {IF IsDir(act[id])
                  THEN [rec |-> OpRecord("delete", name, "", id, "active", ImageCount(act[id]), -1),
                        active |-> Remove(act, id), archive |-> arc]
                  ELSE Gone(act, arc) : id \in Glob(act, name)}
        FromArchive(act, arc, archived_id) ==
            IF Glob(arc, name) = {} THEN {Gone(act, arc)}
            ELSE {IF IsDir(arc[id])
                  THEN [rec |-> [OpRecord("delete", name, "", id, "archived", ImageCount(arc[id]), -1)
                                   EXCEPT !.flag = (id = archived_id), !.moved = archived_id],
                        active |-> act, archive |-> Remove(arc, id)]
                  ELSE Gone(act, arc) : id \in Glob(arc, name)}
    IN IF archive_first
       THEN UNION {IF Returned(out.rec) THEN FromArchive(out.active, out.archive, out.rec.id)
                   ELSE IF out.rec.err = "FileNotFoundError" THEN FromActive(out.active, out.archive)
                   ELSE {[rec |-> Raised("delete", name, out.rec.err),
                          active |-> out.active, archive |-> out.archive]}
                   : out \in ArchiveOutcomes(name)}
       ELSE FromActive(active, archive)

DeleteDataset(name, archive_first) ==
    /\ store_calls < MaxStoreCalls
    /\ store_calls' = store_calls + 1
    /\ \E out \in DeleteOutcomes(name, archive_first) :
          /\ active' = out.active
          /\ archive' = out.archive
          /\ store_op' = out.rec
    /\ UNCHANGED <<scratch, clock>>

\* list_datasets(include_archived): the directories matching "*_*" of base_dir
\* and, when asked, of archive/ (an archived entry replaces an active one of the
\* same name): id -> [status, image_count].
Listed(region) == {id \in DOMAIN region : Len(id.parts) >= 2 /\ IsDir(region[id])}
ListDatasets(include_archived) ==
    [id \in Listed(active) \cup (IF include_archived THEN Listed(archive) ELSE {}) |->
        IF include_archived /\ id \in Listed(archive)
        THEN [status |-> "archived", image_count |-> ImageCount(archive[id])]
        ELSE [status |-> "active", image_count |-> ImageCount(active[id])]]

\* The management page of app.py. Each run of the script lists the datasets
\* (archived ones included), takes the entry chosen in the selectbox, shows
\* its details, and calls the manager for the button that was pressed.
\* The options of the selectbox: list(datasets.keys()).
Selectable == DOMAIN ListDatasets(TRUE)

\* selected_dataset.split('_')[0], the name the page hands to the manager.
PageName(selected) == FirstPart(selected.parts)

\* info = manager.get_dataset_info(...): the details shown.
PageDetails(selected) == {info \in InfoOutcomes(PageName(selected)) : Returned(info)}

\* A run of the script with no button pressed.
PageView(selected) ==
    /\ selected \in Selectable
    /\ store_calls < MaxStoreCalls
    /\ store_calls' = store_calls + 1
    /\ \E info \in PageDetails(selected) :
          store_op' = [info EXCEPT !.selected = selected]
    /\ UNCHANGED <<active, archive, scratch, clock>>

\* The Archive button, offered when the details say 'active'; an exception
\* of the manager is shown with st.error.
PageArchive(selected) ==
    /\ selected \in Selectable
    /\ store_calls < MaxStoreCalls
    /\ store_calls' = store_calls + 1
    /\ \E info \in PageDetails(selected) : info.status = "active"
    /\ \E out \in ArchiveOutcomes(PageName(selected)) :
          /\ active' = out.active
          /\ archive' = out.archive
          /\ store_op' = [out.rec EXCEPT !.selected = selected]
    /\ UNCHANGED <<scratch, clock>>

\* The Export ZIP button.
PageExport(selected) ==
    /\ selected \in Selectable
    /\ store_calls < MaxStoreCalls
    /\ store_calls' = store_calls + 1
    /\ PageDetails(selected) # {}
    /\ \E out \in ExportOutcomes(PageName(selected)) :
          /\ active' = out.active
          /\ store_op' = [out.rec EXCEPT !.selected = selected]
    /\ UNCHANGED <<archive, scratch, clock>>

\* The Delete button with its confirmation checkbox, both returning True:
\* delete_dataset with its default archive_first=True.
PageDelete(selected) ==
    /\ selected \in Selectable
    /\ store_calls < MaxStoreCalls
    /\ store_calls' = store_calls + 1
    /\ PageDetails(selected) # {}
    /\ \E out \in DeleteOutcomes(PageName(selected), TRUE) :
          /\ active' = out.active
          /\ archive' = out.archive
          /\ store_op' = [out.rec EXCEPT !.selected = selected]
    /\ UNCHANGED <<scratch, clock>>


(***************************************************************************)
(* Generation run: generation_worker (UI) and run_generation (CLI)         *)
(***************************************************************************)

\* The two entry points of the pipeline.
Entries == {"ui", "cli"}

\* The VariationSpecs a run is started on: none, one axis, two axes, and two
\* with an axis that has no value.
RunVariations ==
    { <<>>,
      <<[key |-> "seed", values |-> <<"1", "2">>]>>,
      <<[key |-> "seed", values |-> <<"1", "2">>], [key |-> "cfg", values |-> <<"7">>]>>,
      <<[key |-> "seed", values |-> <<>>]>>,
      <<[key |-> "seed", values |-> <<"1", "2">>], [key |-> "cfg", values |-> <<>>]>> }

\* The base ParameterSet of a run.
RunBase == [k \in {"prompt", "steps"} |-> IF k = "prompt" THEN "p" ELSE "10"]

\* total_combinations of run_generation: the product of the axis lengths, an
\* axis without values counting as 1.
RECURSIVE AnnouncedTotal(_)
AnnouncedTotal(vspec) ==
    IF vspec = <<>> THEN 1
    ELSE (IF Len(Head(vspec).values) > 0 THEN Len(Head(vspec).values) ELSE 1)
            * AnnouncedTotal(Tail(vspec))

\* One entry of the queue or one printed line.
Event(type, item, num, den) ==
    [type |-> type, item |-> item, num |-> num, den |-> den, done |-> FALSE,
     error |-> "", generated |-> -1, failed |-> -1, path |-> ""]

\* The terminal status event of a finished run: progress 1.0, done.
FinalEvent(generated, failed, path) ==
    [type |-> "finished", item |-> 0, num |-> 1, den |-> 1, done |-> TRUE,
     error |-> "", generated |-> generated, failed |-> failed, path |-> path]

\* A plausible slip: the outer except clause reports the error without "done".
ErrorEventNotDone(error) ==
    [type |-> "worker_error", item |-> 0, num |-> -1, den |-> -1, done |-> FALSE,
     error |-> error, generated |-> -1, failed |-> -1, path |-> ""]

\* The event of the worker's outer except clause.
ErrorEvent(error) ==
    [type |-> "worker_error", item |-> 0, num |-> -1, den |-> -1, done |-> TRUE,
     error |-> error, generated |-> -1, failed |-> -1, path |-> ""]

\* metadata['request_parameters'] = params, as the writer reads it: the seed
\* and cfg_scale the ParameterSet has, and its prompt.
AsRequestParams(params) ==
    RequestParams("map",
        IF "seed" \in DOMAIN params THEN params["seed"] ELSE "absent",
        IF "cfg" \in DOMAIN params THEN params["cfg"] ELSE "absent",
        IF "prompt" \in DOMAIN params THEN <<params["prompt"]>> ELSE <<>>)

\* What client.generate_image comes back with: bytes and info, bytes and an
\* empty info, (None, None), or an exception.
ServiceResults ==
    {[kind |-> "ok", bytes |-> b] : b \in ImageBytes}
        \cup {[kind |-> k, bytes |-> NoBytes] : k \in {"none", "raise"}}
        \cup {[kind |-> "no_info", bytes |-> "b1"]}

\* A plausible slip: the else branch reports the failure and counts nothing.
FailureNotCounted(w) == w

\* The else branch of `if image_bytes and generation_info`: failed_count += 1.
CountFailed(w) == [w EXCEPT !.failed_count = @ + 1]

\* A plausible slip: a failed request is sent again.
SameItemAgain == "call"

\* Where the loop goes after a request that came back without image or info:
\* to the next iteration of the for statement.
AfterFailedRequest == "loop"

\* The except clause inside the loop counts the item as failed and the loop
\* goes on.
CaughtInLoop == "loop"

\* A plausible slip: no except clause inside the loop, the exception reaches
\* the outer handler.
Propagated == "outer_except"

\* Where an exception raised while an item is processed leads.
ItemExceptionHandler == CaughtInLoop

\* st.session_state before the first run of a session, the script at rest:
\* error_message "" is None; taken are the positions (in events) of the entries
\* removed from progress_queue; delivered are the entries the script handled.
NoObserver ==
    [pc |-> "idle", is_running |-> FALSE, error_message |-> "",
     status_message |-> "Idle.", thread |-> "none", taken |-> {}, delivered |-> <<>>]

\* The run's variables before it starts; with_bytes counts the service calls
\* that returned non-empty image bytes.
NoLocals ==
    [param_combinations |-> <<>>, total_combinations |-> -1, i |-> 0,
     generated_count |-> 0, failed_count |-> 0, backend |-> "none",
     with_bytes |-> 0]
PipeIdle ==
    /\ run_input = [entry |-> "none", base |-> EmptyMap, variations |-> <<>>]
    /\ worker_pc = "idle"
    /\ worker = NoLocals
    /\ sent = <<>>
    /\ events = <<>>
    /\ outcome = "none"
    /\ cancel_flag = [set |-> FALSE, consumed |-> 0]
    /\ observer = NoObserver

InitRunInputs ==
    /\ run_input \in [entry : Entries, base : {RunBase}, variations : RunVariations]
    /\ worker_pc = "start"
    /\ worker = NoLocals
    /\ sent = <<>>
    /\ events = <<>>
    /\ outcome = "none"
    /\ cancel_flag = [set |-> FALSE, consumed |-> 0]
    /\ observer = NoObserver


\* The worker's thread in the writer.
RunThread == "t1"

Emit(ev) == events' = Append(events, ev)

\* The start of the run. generation_worker announces itself; run_generation
\* loads the configuration, and ends when that fails: its except clause names
\* yaml.YAMLError in a module that does not import yaml, so the NameError
\* leaves run_generation with a traceback.
RunStart ==
    /\ worker_pc = "start"
    /\ \/ /\ run_input.entry = "ui"
          /\ Emit(Event("worker_started", 0, -1, -1))
          /\ worker_pc' = "init"
          /\ UNCHANGED outcome
       \/ /\ run_input.entry = "cli"
          /\ \E loaded \in BOOLEAN :
                IF loaded
                THEN /\ worker_pc' = "init"
                     /\ UNCHANGED <<events, outcome>>
                ELSE /\ Emit(Event("traceback", 0, -1, -1))
                     /\ worker_pc' = "exited"
                     /\ outcome' = "Failed"
    /\ UNCHANGED <<run_input, worker, sent, cancel_flag>>

\* A1111Client(...) and DatasetBuilder(...): the availability check or the
\* creation of the dataset directory may raise. The worker turns either into a
\* RuntimeError for its outer handler; run_generation prints a client error and
\* returns, and has no handler around the builder.
InitResults == {"ok", "client_error", "builder_error"}

\* A plausible slip: the failure is reported and the run goes on.
InitFailureIgnored(entry) == "expand"

\* Where a failed initialization leads: the worker's outer handler puts the
\* error event and the function returns; run_generation returns (or dies with
\* the builder's exception).
AfterInitFailure(entry) == IF entry = "ui" THEN "returning" ELSE "exited"

\* worker.backend keeps how the initialization went.
BackendInit ==
    /\ worker_pc = "init"
    /\ \E result \in InitResults :
          /\ worker' = [worker EXCEPT !.backend = result]
          /\ IF result = "ok"
             THEN /\ worker_pc' = "expand"
                  /\ IF run_input.entry = "ui"
                     THEN Emit(Event("backend_initialized", 0, -1, -1))
                     ELSE UNCHANGED events
                  /\ UNCHANGED outcome
             ELSE /\ IF run_input.entry = "ui"
                     THEN Emit(ErrorEvent("RuntimeError"))
                     ELSE Emit(Event(IF result = "client_error" THEN "client_error"
                                     ELSE "traceback", 0, -1, -1))
                  /\ worker_pc' = AfterInitFailure(run_input.entry)
                  /\ outcome' = "Failed"
    /\ UNCHANGED <<run_input, sent, cancel_flag>>

\* The expansion. The worker takes the whole list and raises ValueError when
\* it is empty; run_generation computes the total from the axis lengths and
\* keeps the generator for its loop.
Expand ==
    /\ worker_pc = "expand"
    /\ LET combos == GenerateParameterCombinations(run_input.base, run_input.variations)
       IN IF run_input.entry = "ui"
          THEN /\ worker' = [worker EXCEPT !.param_combinations = combos,
                                           !.total_combinations = Len(combos)]
               /\ IF Len(combos) = 0
                  THEN /\ events' = events \o
                            << Event("calculating", 0, -1, -1),
                               Event("found", 0, -1, Len(combos)),
                               ErrorEvent("ValueError") >>
                       /\ worker_pc' = "returning"
                       /\ outcome' = "Failed"
                  ELSE /\ events' = events \o
                            << Event("calculating", 0, -1, -1),
                               Event("found", 0, -1, Len(combos)) >>
                       /\ worker_pc' = "loop"
                       /\ UNCHANGED outcome
          ELSE /\ worker' = [worker EXCEPT
                                !.param_combinations = combos,
                                !.total_combinations = AnnouncedTotal(run_input.variations)]
               /\ Emit(Event("starting", 0, -1, AnnouncedTotal(run_input.variations)))
               /\ worker_pc' = "loop"
               /\ UNCHANGED outcome
    /\ UNCHANGED <<run_input, sent, cancel_flag>>

\* for i, params in enumerate(param_combinations): the next ParameterSet is
\* taken and announced, or the loop ends.
LoopNext ==
    /\ worker_pc = "loop"
    /\ IF worker.i < Len(worker.param_combinations)
       THEN /\ worker' = [worker EXCEPT !.i = @ + 1]
            /\ Emit(Event(IF run_input.entry = "ui" THEN "progress" ELSE "generating",
                          worker.i + 1, worker.i + 1, worker.total_combinations))
            /\ worker_pc' = "call"
       ELSE /\ worker_pc' = "finalize"
            /\ UNCHANGED <<worker, events>>
    /\ UNCHANGED <<run_input, sent, outcome, cancel_flag>>

\* client.generate_image(params) is entered.
ServiceCall ==
    /\ worker_pc = "call"
    /\ sent' = Append(sent, worker.param_combinations[worker.i])
    /\ worker_pc' = "in_flight"
    /\ UNCHANGED <<run_input, worker, events, outcome, cancel_flag>>


\* if image_bytes and generation_info: both must be truthy, and an empty
\* mapping is not.
Forwarded(r) == r.bytes # NoBytes /\ r.kind # "no_info"

\* client.generate_image returns or raises. With bytes and info the image goes
\* to builder.add_image; otherwise the item is counted as failed.
ServiceReturn ==
    /\ worker_pc = "in_flight"
    /\ \E r \in ServiceResults :
          CASE r.kind \in {"ok", "no_info"} /\ Forwarded(r) ->
                /\ AddImageCall(RunThread, r.bytes,
                                AsRequestParams(worker.param_combinations[worker.i]))
                /\ worker' = [worker EXCEPT !.with_bytes = @ + 1]
                /\ worker_pc' = "add_image"
                /\ UNCHANGED <<events, outcome>>
            [] r.kind \in {"none", "no_info"} /\ ~Forwarded(r) ->
                /\ worker' = [CountFailed(worker) EXCEPT
                                !.with_bytes = @ + (IF r.bytes # NoBytes THEN 1 ELSE 0)]
                /\ Emit(Event("item_failed", worker.i, -1, -1))
                /\ worker_pc' = AfterFailedRequest
                /\ UNCHANGED <<writerVars, outcome>>
            [] OTHER ->
                IF ItemExceptionHandler = "loop"
                THEN /\ worker' = [worker EXCEPT !.failed_count = @ + 1]
                     /\ Emit(Event("item_exception", worker.i, -1, -1))
                     /\ worker_pc' = "loop"
                     /\ UNCHANGED <<writerVars, outcome>>
                ELSE /\ Emit(ErrorEvent("Exception"))
                     /\ worker_pc' = IF run_input.entry = "ui" THEN "returning" ELSE "exited"
                     /\ outcome' = "Failed"
                     /\ UNCHANGED <<writerVars, worker>>
    /\ UNCHANGED <<run_input, sent, cancel_flag>>

\* builder.add_image has returned (it raises nothing): generated_count += 1
\* and the success is reported.
AddImageReturn ==
    /\ worker_pc = "add_image"
    /\ wpc[RunThread] = "idle"
    /\ worker' = [worker EXCEPT !.generated_count = @ + 1]
    /\ Emit(Event("item_saved", worker.i, -1, -1))
    /\ worker_pc' = "loop"
    /\ UNCHANGED <<run_input, sent, outcome, cancel_flag>>

\* After the loop. The worker finalizes the builder and puts the terminal
\* event; run_generation prints the counts and finalizes only when
\* generated_count > 0.
RunFinalize ==
    /\ worker_pc = "finalize"
    /\ LET path == IF image_count = 0 THEN "" ELSE "metadata_path"
       IN IF run_input.entry = "ui"
          THEN /\ FinalizeDataset(RunThread)
               /\ Emit(FinalEvent(worker.generated_count, worker.failed_count, path))
               /\ worker_pc' = "returning"
          ELSE /\ IF worker.generated_count > 0
                  THEN /\ FinalizeDataset(RunThread)
                       /\ events' = events \o
                            << [FinalEvent(worker.generated_count, worker.failed_count, "")
                                   EXCEPT !.type = "complete"],
                               [Event("saved", 0, -1, -1) EXCEPT !.path = path] >>
                  ELSE /\ events' = events \o
                            << [FinalEvent(worker.generated_count, worker.failed_count, "")
                                   EXCEPT !.type = "complete"],
                               Event("not_finalized", 0, -1, -1) >>
                       /\ UNCHANGED writerVars
               /\ worker_pc' = "exited"
    /\ outcome' = "Completed"
    /\ UNCHANGED <<run_input, worker, sent, cancel_flag>>

\* The worker function returns and its thread ends.
WorkerExit ==
    /\ worker_pc = "returning"
    /\ worker_pc' = "exited"
    /\ UNCHANGED <<run_input, worker, sent, events, outcome, cancel_flag>>

\* The states the specification calls Running.
Running == worker_pc \in {"loop", "call", "in_flight", "add_image"}

\* The specification's cancellation request: the caller sets the flag while
\* the run is Running. Nothing in generation_worker or run_generation reads it.
RequestCancel ==
    /\ Running
    /\ ~cancel_flag.set
    /\ cancel_flag' = [set |-> TRUE, consumed |-> worker.i]
    /\ UNCHANGED <<run_input, worker_pc, worker, sent, events, outcome>>


(***************************************************************************)
(* The observer: the foreground script of app.py                           *)
(***************************************************************************)

\* What the start logic can pass to the worker: 'prompt' and 'seed' axes, and
\* only with values (an empty list is not added to variations).
ObserveVariations ==
    { <<>>, <<[key |-> "seed", values |-> <<"1", "2">>]>> }

\* The positions of the entries still on progress_queue.
Pending == {k \in DOMAIN events : k \notin observer.taken}

\* Queue.get(): the oldest entry.
QueueHead(pending) == CHOOSE k \in pending : \A j \in pending : k <= j

\* The events that carry a "status" key.
HasStatus(msg) == msg.type \in {"calculating", "found", "progress", "finished", "worker_error"}

\* The body of the drain loop for one message: status, error and done are
\* handled (log, progress and image only feed the display).
ProcessMessage(obs, msg) ==
    [obs EXCEPT !.status_message = IF HasStatus(msg) THEN msg.type ELSE @,
                !.error_message = IF msg.error # "" THEN msg.error ELSE @,
                !.is_running = IF msg.error # "" \/ msg.done THEN FALSE ELSE @,
                !.delivered = Append(@, msg)]

\* generation_thread.is_alive()
ThreadAlive == observer.thread = "started" /\ worker_pc # "exited"

\* The script run of a click on Start, for the first run of a session: the
\* background section is skipped (not running, queue empty); the start logic
\* sets the flags, empties the queue, parses the inputs, starts the thread and
\* asks for a rerun, or reports the parse error.
ClickStart ==
    /\ observer.pc = "idle"
    /\ observer.thread = "none"
    /\ ~observer.is_running
    /\ Pending = {}
    /\ worker_pc = "idle"
    /\ \E valid \in BOOLEAN :
          IF valid
          THEN /\ observer' = [observer EXCEPT !.is_running = TRUE,
                                               !.error_message = "",
                                               !.status_message = "Parsing inputs...",
                                               !.taken = DOMAIN events,
                                               !.thread = "started",
                                               !.pc = "drain"]
               /\ worker_pc' = "start"
          ELSE /\ observer' = [observer EXCEPT !.is_running = FALSE,
                                               !.error_message = "ValueError",
                                               !.status_message = "Parsing inputs...",
                                               !.taken = DOMAIN events]
               /\ UNCHANGED worker_pc
    /\ UNCHANGED <<run_input, worker, sent, events, outcome, cancel_flag>>

\* while not progress_queue.empty(): msg = progress_queue.get(), handled.
ObsGet ==
    /\ observer.pc = "drain"
    /\ Pending # {}
    /\ LET k == QueueHead(Pending)
       IN observer' = [ProcessMessage(observer, events[k]) EXCEPT !.taken = @ \cup {k}]
    /\ UNCHANGED <<run_input, worker_pc, worker, sent, events, outcome, cancel_flag>>

\* The loop test finds the queue empty.
ObsDrained ==
    /\ observer.pc = "drain"
    /\ Pending = {}
    /\ observer' = [observer EXCEPT !.pc = "check"]
    /\ UNCHANGED <<run_input, worker_pc, worker, sent, events, outcome, cancel_flag>>

\* The rest of the background section: a run whose thread is no longer alive
\* is declared stopped; while is_running the script sleeps and reruns, else
\* the script run ends (start_button is not set on a rerun).
ObsCheckAlive ==
    /\ observer.pc = "check"
    /\ LET stopped == observer.is_running /\ observer.thread = "started" /\ ~ThreadAlive
           running == observer.is_running /\ ~stopped
       IN observer' = [observer EXCEPT
              !.is_running = running,
              !.error_message = IF stopped /\ @ = "" THEN "Thread stopped unexpectedly." ELSE @,
              !.status_message = IF stopped THEN "Error: Thread stopped." ELSE @,
              !.pc = IF running THEN "drain" ELSE "idle"]
    /\ UNCHANGED <<run_input, worker_pc, worker, sent, events, outcome, cancel_flag>>

\* A later interaction of the user (other than Start) runs the script again:
\* the background section is entered when something is on the queue.
UserRerun ==
    /\ observer.pc = "idle"
    /\ observer.thread = "started"
    /\ observer.is_running \/ Pending # {}
    /\ observer' = [observer EXCEPT !.pc = "drain"]
    /\ UNCHANGED <<run_input, worker_pc, worker, sent, events, outcome, cancel_flag>>


(***************************************************************************)
(* Specifications                                                          *)
(***************************************************************************)

InitExpand == InitExpandInputs /\ WriterIdle /\ StoreIdle /\ PipeIdle

NextExpand ==
    \/ ExpandCall /\ UNCHANGED <<writerVars, storeVars, pipeVars>>
    \/ ExpandYield /\ UNCHANGED <<writerVars, storeVars, pipeVars>>
    \/ ExpandExhaust /\ UNCHANGED <<writerVars, storeVars, pipeVars>>
    \/ ExpandIterateAgain /\ UNCHANGED <<writerVars, storeVars, pipeVars>>

SpecExpand == InitExpand /\ [][NextExpand]_vars

\* One caller (the generation run's single worker) drives the writer.
WriterCaller == "t1"

InitWriter == ExpandIdle /\ WriterIdle /\ StoreIdle /\ PipeIdle

NextWriter ==
    \/ \E bytes \in ImageBytes \cup {NoBytes}, rp \in WriterMetas :
           AddImageCall(WriterCaller, bytes, rp) /\ UNCHANGED <<expandVars, storeVars, pipeVars>>
    \/ GenRead(WriterCaller) /\ UNCHANGED <<expandVars, storeVars, pipeVars>>
    \/ GenWrite(WriterCaller) /\ UNCHANGED <<expandVars, storeVars, pipeVars>>
    \/ GenName(WriterCaller) /\ UNCHANGED <<expandVars, storeVars, pipeVars>>
    \/ WriteImage(WriterCaller) /\ UNCHANGED <<expandVars, storeVars, pipeVars>>
    \/ AcquireLock(WriterCaller) /\ UNCHANGED <<expandVars, storeVars, pipeVars>>
    \/ AppendLine(WriterCaller) /\ UNCHANGED <<expandVars, storeVars, pipeVars>>
    \/ ReleaseLock(WriterCaller) /\ UNCHANGED <<expandVars, storeVars, pipeVars>>
    \/ FinalizeDataset(WriterCaller) /\ UNCHANGED <<expandVars, storeVars, pipeVars>>

SpecWriter == InitWriter /\ [][NextWriter]_vars

\* One caller hands add_image metadata without request_parameters, or with a
\* request_parameters value that is no mapping.
MalformedMetas == {MetaMissing, MetaNotMap}

NextMalformed ==
    \/ \E bytes \in ImageBytes, rp \in MalformedMetas :
           AddImageCall(WriterCaller, bytes, rp) /\ UNCHANGED <<expandVars, storeVars, pipeVars>>
    \/ GenRead(WriterCaller) /\ UNCHANGED <<expandVars, storeVars, pipeVars>>
    \/ GenWrite(WriterCaller) /\ UNCHANGED <<expandVars, storeVars, pipeVars>>
    \/ GenName(WriterCaller) /\ UNCHANGED <<expandVars, storeVars, pipeVars>>
    \/ WriteImage(WriterCaller) /\ UNCHANGED <<expandVars, storeVars, pipeVars>>
    \/ AcquireLock(WriterCaller) /\ UNCHANGED <<expandVars, storeVars, pipeVars>>
    \/ AppendLine(WriterCaller) /\ UNCHANGED <<expandVars, storeVars, pipeVars>>
    \/ ReleaseLock(WriterCaller) /\ UNCHANGED <<expandVars, storeVars, pipeVars>>

SpecMalformed == InitWriter /\ [][NextMalformed]_vars

\* Several threads call add_image on one DatasetBuilder.
ConcurrentMetas == {MetaGood, MetaNotMap}
ConcurrentBytes == {"b1", NoBytes}
MaxConcurrentCalls == 2

\* The steps of thread t inside an add_image call.
ThreadStep(t) ==
    \/ GenRead(t) /\ UNCHANGED <<expandVars, storeVars, pipeVars>>
    \/ GenWrite(t) /\ UNCHANGED <<expandVars, storeVars, pipeVars>>
    \/ GenName(t) /\ UNCHANGED <<expandVars, storeVars, pipeVars>>
    \/ WriteImage(t) /\ UNCHANGED <<expandVars, storeVars, pipeVars>>
    \/ AcquireLock(t) /\ UNCHANGED <<expandVars, storeVars, pipeVars>>
    \/ AppendLine(t) /\ UNCHANGED <<expandVars, storeVars, pipeVars>>
    \/ ReleaseLock(t) /\ UNCHANGED <<expandVars, storeVars, pipeVars>>

NextConcurrent ==
    \/ \E t \in WThreads, bytes \in ConcurrentBytes, rp \in ConcurrentMetas :
           /\ wstats.calls < MaxConcurrentCalls
           /\ AddImageCall(t, bytes, rp)
           /\ UNCHANGED <<expandVars, storeVars, pipeVars>>
    \/ \E t \in WThreads : ThreadStep(t)

SpecConcurrent == InitWriter /\ [][NextConcurrent]_vars

\* A thread that can take its next step inside add_image takes it.
SpecConcurrentFair ==
    /\ SpecConcurrent
    /\ \A t \in WThreads : WF_vars(ThreadStep(t))

InitStore == ExpandIdle /\ WriterIdle /\ StoreIdle /\ PipeIdle

NextStore ==
    \/ Tick /\ UNCHANGED <<expandVars, writerVars, pipeVars>>
    \/ \E name \in StoreNames : InitDataset(name) /\ UNCHANGED <<expandVars, writerVars, pipeVars>>
    \/ \E id \in DOMAIN active : AddRecord(id) /\ UNCHANGED <<expandVars, writerVars, pipeVars>>
    \/ \E name \in LookupNames : ArchiveDataset(name) /\ UNCHANGED <<expandVars, writerVars, pipeVars>>
    \/ \E name \in LookupNames : ExportDataset(name) /\ UNCHANGED <<expandVars, writerVars, pipeVars>>
    \/ \E name \in LookupNames, new_name \in ImportNames :
           ImportDataset(ZipId(name), new_name) /\ UNCHANGED <<expandVars, writerVars, pipeVars>>
    \/ \E name \in LookupNames : GetDatasetInfo(name) /\ UNCHANGED <<expandVars, writerVars, pipeVars>>
    \/ \E name \in LookupNames, archive_first \in BOOLEAN :
           DeleteDataset(name, archive_first) /\ UNCHANGED <<expandVars, writerVars, pipeVars>>

SpecStore == InitStore /\ [][NextStore]_vars

\* Datasets made by generation runs and handled from the management page.
NextPage ==
    \/ Tick /\ UNCHANGED <<expandVars, writerVars, pipeVars>>
    \/ \E name \in StoreNames : InitDataset(name) /\ UNCHANGED <<expandVars, writerVars, pipeVars>>
    \/ \E id \in DOMAIN active : AddRecord(id) /\ UNCHANGED <<expandVars, writerVars, pipeVars>>
    \/ \E selected \in Selectable : PageView(selected) /\ UNCHANGED <<expandVars, writerVars, pipeVars>>
    \/ \E selected \in Selectable : PageArchive(selected) /\ UNCHANGED <<expandVars, writerVars, pipeVars>>
    \/ \E selected \in Selectable : PageExport(selected) /\ UNCHANGED <<expandVars, writerVars, pipeVars>>
    \/ \E selected \in Selectable : PageDelete(selected) /\ UNCHANGED <<expandVars, writerVars, pipeVars>>

SpecPage == InitStore /\ [][NextPage]_vars


InitPipe == ExpandIdle /\ WriterIdle /\ StoreIdle /\ InitRunInputs

NextPipe ==
    \/ RunStart /\ UNCHANGED <<expandVars, writerVars, storeVars, observer>>
    \/ BackendInit /\ UNCHANGED <<expandVars, writerVars, storeVars, observer>>
    \/ Expand /\ UNCHANGED <<expandVars, writerVars, storeVars, observer>>
    \/ LoopNext /\ UNCHANGED <<expandVars, writerVars, storeVars, observer>>
    \/ ServiceCall /\ UNCHANGED <<expandVars, writerVars, storeVars, observer>>
    \/ ServiceReturn /\ UNCHANGED <<expandVars, storeVars, observer>>
    \/ GenRead(RunThread) /\ UNCHANGED <<expandVars, storeVars, pipeVars>>
    \/ GenWrite(RunThread) /\ UNCHANGED <<expandVars, storeVars, pipeVars>>
    \/ GenName(RunThread) /\ UNCHANGED <<expandVars, storeVars, pipeVars>>
    \/ WriteImage(RunThread) /\ UNCHANGED <<expandVars, storeVars, pipeVars>>
    \/ AcquireLock(RunThread) /\ UNCHANGED <<expandVars, storeVars, pipeVars>>
    \/ AppendLine(RunThread) /\ UNCHANGED <<expandVars, storeVars, pipeVars>>
    \/ ReleaseLock(RunThread) /\ UNCHANGED <<expandVars, storeVars, pipeVars>>
    \/ AddImageReturn /\ UNCHANGED <<expandVars, writerVars, storeVars, observer>>
    \/ RunFinalize /\ UNCHANGED <<expandVars, storeVars, observer>>
    \/ WorkerExit /\ UNCHANGED <<expandVars, writerVars, storeVars, observer>>
    \/ RequestCancel /\ UNCHANGED <<expandVars, writerVars, storeVars, observer>>

SpecPipe == InitPipe /\ [][NextPipe]_vars

\* The session of app.py: the script at rest, Start not yet clicked.
InitObserveInputs ==
    /\ run_input \in [entry : {"ui"}, base : {RunBase}, variations : ObserveVariations]
    /\ worker_pc = "idle"
    /\ worker = NoLocals
    /\ sent = <<>>
    /\ events = <<>>
    /\ outcome = "none"
    /\ cancel_flag = [set |-> FALSE, consumed |-> 0]
    /\ observer = NoObserver

InitObserve == ExpandIdle /\ WriterIdle /\ StoreIdle /\ InitObserveInputs

\* The worker thread's steps.
WorkerStep ==
    \/ RunStart /\ UNCHANGED <<expandVars, writerVars, storeVars, observer>>
    \/ BackendInit /\ UNCHANGED <<expandVars, writerVars, storeVars, observer>>
    \/ Expand /\ UNCHANGED <<expandVars, writerVars, storeVars, observer>>
    \/ LoopNext /\ UNCHANGED <<expandVars, writerVars, storeVars, observer>>
    \/ ServiceCall /\ UNCHANGED <<expandVars, writerVars, storeVars, observer>>
    \/ ServiceReturn /\ UNCHANGED <<expandVars, storeVars, observer>>
    \/ GenRead(RunThread) /\ UNCHANGED <<expandVars, storeVars, pipeVars>>
    \/ GenWrite(RunThread) /\ UNCHANGED <<expandVars, storeVars, pipeVars>>
    \/ GenName(RunThread) /\ UNCHANGED <<expandVars, storeVars, pipeVars>>
    \/ WriteImage(RunThread) /\ UNCHANGED <<expandVars, storeVars, pipeVars>>
    \/ AcquireLock(RunThread) /\ UNCHANGED <<expandVars, storeVars, pipeVars>>
    \/ AppendLine(RunThread) /\ UNCHANGED <<expandVars, storeVars, pipeVars>>
    \/ ReleaseLock(RunThread) /\ UNCHANGED <<expandVars, storeVars, pipeVars>>
    \/ AddImageReturn /\ UNCHANGED <<expandVars, writerVars, storeVars, observer>>
    \/ RunFinalize /\ UNCHANGED <<expandVars, storeVars, observer>>
    \/ WorkerExit /\ UNCHANGED <<expandVars, writerVars, storeVars, observer>>

\* The script's steps within a script run.
ScriptStep ==
    \/ ObsGet /\ UNCHANGED <<expandVars, writerVars, storeVars>>
    \/ ObsDrained /\ UNCHANGED <<expandVars, writerVars, storeVars>>
    \/ ObsCheckAlive /\ UNCHANGED <<expandVars, writerVars, storeVars>>

NextObserve ==
    \/ ClickStart /\ UNCHANGED <<expandVars, writerVars, storeVars>>
    \/ WorkerStep
    \/ ScriptStep
    \/ UserRerun /\ UNCHANGED <<expandVars, writerVars, storeVars>>

SpecObserve == InitObserve /\ [][NextObserve]_vars

\* The worker is a thread of its own and every call it makes returns (the
\* requests have timeouts): while it has a step to take it takes one.
SpecObserveFair == SpecObserve /\ WF_vars(WorkerStep)


(***************************************************************************)
(* Claims                                                                  *)
(***************************************************************************)

\* ---- helpers of the expander's claims
AxisCount == Len(variations)
AxisLen(j) == Len(variations[j].values)
AxisKeySet == {variations[j].key : j \in 1..AxisCount}

\* n_j * ... * n_k, the number of combinations of the axes from j on.
RECURSIVE LenProductFrom(_)
LenProductFrom(j) == IF j > AxisCount THEN 1 ELSE AxisLen(j) * LenProductFrom(j + 1)

\* Every choice of one position per axis.
IndexTuples == {idx \in [1..AxisCount -> 1..MaxAxisLen + 1] :
                    \A j \in 1..AxisCount : idx[j] <= AxisLen(j)}

\* ParameterSet ps is base_params overridden by the values at positions idx.
IsCombination(ps, idx) ==
    /\ DOMAIN ps = (DOMAIN base_params) \cup AxisKeySet
    /\ \A j \in 1..AxisCount : ps[variations[j].key] = variations[j].values[idx[j]]
    /\ \A k \in (DOMAIN base_params) \ AxisKeySet : ps[k] = base_params[k]

Exhausted == param_combinations.state = "exhausted"

\* C4: once the sequence is exhausted it has yielded exactly n1*...*nk
\* ParameterSets (one, equal to the base, for no axis; none when an axis is
\* empty); each holds every key of the base, the chosen combination's value for
\* the keys the variations name and the base's value for the others, and every
\* combination is among them.
C4_CountAndContent ==
    Exhausted =>
        /\ Len(yielded) = LenProductFrom(1)
        /\ (AxisCount = 0 => yielded = <<base_params>>)
        /\ ((\E j \in 1..AxisCount : AxisLen(j) = 0) => yielded = <<>>)
        /\ \A p \in 1..Len(yielded) :
              /\ (DOMAIN base_params) \subseteq DOMAIN yielded[p]
              /\ \E idx \in IndexTuples : IsCombination(yielded[p], idx)
        /\ \A idx \in IndexTuples :
              \E p \in 1..Len(yielded) : IsCombination(yielded[p], idx)

\* C4's case: three axes, one of them overriding a key of the base, all yielded.
C4_Witness ==
    /\ Exhausted
    /\ AxisCount = 3
    /\ Len(yielded) = 8
    /\ "seed" \in DOMAIN base_params
    /\ "seed" \in AxisKeySet

\* C5: the p-th ParameterSet yielded takes, on axis j, the value at position
\* ((p-1) div (n_{j+1}*...*n_k)) mod n_j: row-major order, the last-declared axis
\* varying fastest, values in list order; and the spec's own example comes out
\* in its stated order.
C5_RowMajorOrder ==
    Exhausted =>
        /\ \A p \in 1..Len(yielded) : \A j \in 1..AxisCount :
              yielded[p][variations[j].key] =
                  variations[j].values[(((p - 1) \div LenProductFrom(j + 1)) % AxisLen(j)) + 1]
        /\ ( /\ DOMAIN base_params = {"prompt", "steps"}
             /\ variations = << [key |-> "seed", values |-> <<"1", "2">>],
                                [key |-> "cfg", values |-> <<"5", "7">>] >> )
           => /\ Len(yielded) = 4
              /\ \A p \in 1..4 : yielded[p]["prompt"] = "p" /\ yielded[p]["steps"] = "10"
              /\ <<yielded[1]["seed"], yielded[1]["cfg"]>> = <<"1", "5">>
              /\ <<yielded[2]["seed"], yielded[2]["cfg"]>> = <<"1", "7">>
              /\ <<yielded[3]["seed"], yielded[3]["cfg"]>> = <<"2", "5">>
              /\ <<yielded[4]["seed"], yielded[4]["cfg"]>> = <<"2", "7">>

\* C5's case: the example of the spec, iterated to its end.
C5_Witness ==
    /\ Exhausted
    /\ DOMAIN base_params = {"prompt", "steps"}
    /\ variations = << [key |-> "seed", values |-> <<"1", "2">>],
                       [key |-> "cfg", values |-> <<"5", "7">>] >>
    /\ Len(yielded) = 4


\* ---- helpers of the writer's claims
LoggedFiles == {metadata_log[i].filename : i \in 1..Len(metadata_log)}
NoCallRunning == \A t \in WThreads : wpc[t] \in {"idle", "finalized"}

\* C6: with no add_image call in progress and no I/O error so far, the metadata
\* log has one line per add_image call with non-empty bytes, every line names a
\* file of the images directory, and no two lines name the same file.
C6_OneLinePerCallDistinctFiles ==
    (NoCallRunning /\ wstats.io_faults = 0) =>
        /\ Len(metadata_log) = wstats.nonempty
        /\ \A i \in 1..Len(metadata_log) : metadata_log[i].filename \in DOMAIN images_dir
        /\ \A i, j \in 1..Len(metadata_log) :
              i # j => metadata_log[i].filename # metadata_log[j].filename

\* C7: every line of the metadata log names a file that exists in the images
\* directory, in every state, also in the middle of an add_image call.
C7_LoggedFileExists ==
    \A i \in 1..Len(metadata_log) : metadata_log[i].filename \in DOMAIN images_dir

\* C7's case: a record has been appended by a call that wrote its image first,
\* after an earlier call whose image write failed.
C7_Witness ==
    /\ wpc[WriterCaller] = "unlock"
    /\ Len(metadata_log) = 1
    /\ wstats.io_faults = 1
    /\ wstats.persisted = 1
    /\ metadata_log[1].filename \in DOMAIN images_dir

\* C8: finalize_dataset returns the metadata log path exactly when some
\* add_image call persisted an image, and none otherwise.
C8_FinalizePathIffPersisted ==
    finalize_result # "not_called" =>
        (finalize_result = "metadata_path" <=> wstats.persisted > 0)

\* ---- helpers of the store's claims
\* The lines of an entry's metadata log (none without a log).
MetaLines(node) == IF HasMetadata(node) THEN node.meta ELSE 0

\* C9: import_dataset of an archive that export_dataset made of a dataset with
\* at least one image and one record yields an active dataset directory with
\* as many image files and as many metadata-log lines as were exported.
C9_ExportImportRoundTrip ==
    ( /\ store_op.op = "import"
      /\ Returned(store_op)
      /\ store_op.src_images > 0
      /\ store_op.src_meta > 0 )
    => /\ store_op.id \in DOMAIN active
       /\ IsDir(active[store_op.id])
       /\ ImageCount(active[store_op.id]) = store_op.src_images
       /\ MetaLines(active[store_op.id]) = store_op.src_meta

\* C10: get_dataset_info(name) right after a successful archive_dataset(name)
\* of a dataset holding at least one image returns, with status 'archived' and
\* the image count the dataset had before it was archived.
C10_InfoAfterArchive ==
    ( /\ store_op.op = "info"
      /\ store_op.after_archive
      /\ store_op.prev_count > 0 )
    => /\ Returned(store_op)
       /\ store_op.status = "archived"
       /\ store_op.image_count = store_op.prev_count


\* ---- helpers of the run's claims
\* The run has ended: the function returned or is about to.
RunEnded == worker_pc \in {"returning", "exited"}
\* Item n was counted as failed by the loop.
ItemFailed(n) ==
    \E k \in 1..Len(events) :
        events[k].item = n /\ events[k].type \in {"item_failed", "item_exception"}

\* C1: once an item has been sent to the service the run is never Failed,
\* whatever happens to an item (service error, malformed response, writer
\* error): the calls issued are the expanded sequence in order, and a run that
\* has ended is Completed and has sent every ParameterSet to the service.
C1_ItemFailureNeverAborts ==
    /\ Len(sent) <= Len(worker.param_combinations)
    /\ sent = SubSeq(worker.param_combinations, 1, Len(sent))
    /\ (Len(sent) > 0 => outcome # "Failed")
    /\ (RunEnded /\ worker.total_combinations > 0 /\ Len(worker.param_combinations) > 0
            => /\ outcome = "Completed"
               /\ sent = worker.param_combinations)

\* A run of two items has ended Completed although the first item raised in
\* the service call and the second met a writer error.
C1_Witness ==
    /\ worker_pc = "exited"
    /\ outcome = "Completed"
    /\ Len(sent) = 2
    /\ ItemFailed(1)
    /\ wstats.io_faults > 0

\* C2: a run whose expansion is empty issues no service call, never reports
\* Completed, and ends Failed, from either entry point.
C2_EmptyExpansionFails ==
    ( /\ worker.total_combinations # -1
      /\ Len(worker.param_combinations) = 0 )
    => /\ sent = <<>>
       /\ outcome # "Completed"
       /\ (worker_pc = "exited" => outcome = "Failed")

\* C3: once the cancellation flag is set no ParameterSet beyond those already
\* taken from the sequence is sent to the service, and a run cancelled with
\* ParameterSets left ends Cancelled.
C3_CancelStopsAtBoundary ==
    cancel_flag.set
    => /\ Len(sent) <= cancel_flag.consumed
       /\ (worker_pc = "exited" /\ cancel_flag.consumed < Len(worker.param_combinations)
              => outcome = "Cancelled")


\* The directories of a region that a lookup of `name` may find.
DirMatches(region, name) == {id \in Glob(region, name) : IsDir(region[id])}

\* C11: after delete_dataset(name, archive_first=True) has archived an active
\* dataset and returned, that dataset is listed neither by
\* list_datasets(include_archived=False) nor by list_datasets(include_archived=True).
C11_DeletedIsListedNowhere ==
    ( /\ store_op.op = "delete"
      /\ Returned(store_op)
      /\ store_op.moved # NoId )
    => /\ store_op.moved \notin DOMAIN ListDatasets(FALSE)
       /\ store_op.moved \notin DOMAIN ListDatasets(TRUE)

\* C12: delete_dataset(name) raises FileNotFoundError only when neither the
\* active nor the archive region holds a directory for name.
C12_DeleteNotFoundOnlyIfAbsent ==
    ( /\ store_op.op = "delete"
      /\ store_op.err = "FileNotFoundError" )
    => /\ DirMatches(active, store_op.name) = {}
       /\ DirMatches(archive, store_op.name) = {}


\* C13: get_dataset_info(name) reports status 'active' when a directory for
\* name exists in the active region, status 'archived' when one exists only in
\* the archive region, and raises FileNotFoundError exactly when neither region
\* has a match.
C13_InfoResolvesActiveThenArchive ==
    store_op.op = "info"
    => /\ (store_op.err = "FileNotFoundError"
              <=> Glob(active, store_op.name) = {} /\ Glob(archive, store_op.name) = {})
       /\ (DirMatches(active, store_op.name) # {}
              => Returned(store_op) /\ store_op.status = "active")
       /\ (Glob(active, store_op.name) = {} /\ DirMatches(archive, store_op.name) # {}
              => Returned(store_op) /\ store_op.status = "archived")

\* The node a returned lookup resolved to.
Resolved(rec) == IF rec.status = "archived" THEN archive[rec.id] ELSE active[rec.id]

\* C14: get_dataset_info(name) on an existing dataset whose metadata log holds
\* n records returns, for every n >= 0, with a sample of min(n, 3) records.
C14_InfoSampleOfShortLog ==
    ( /\ store_op.op = "info"
      /\ store_op.err # "FileNotFoundError" )
    => /\ Returned(store_op)
       /\ HasMetadata(Resolved(store_op))
              => store_op.sample = Min(Resolved(store_op).meta, SampleSize)


\* C15: export_dataset(name) raises FileNotFoundError only when neither the
\* active nor the archive region holds a directory for name; for a dataset
\* that has been archived it succeeds.
C15_ExportFindsEitherRegion ==
    ( /\ store_op.op = "export"
      /\ store_op.err = "FileNotFoundError" )
    => /\ DirMatches(active, store_op.name) = {}
       /\ DirMatches(archive, store_op.name) = {}

\* C16: the directory init_dataset(name) returns did not exist before the
\* call.
C16_InitAllocatesNewDirectory ==
    (store_op.op = "init" /\ Returned(store_op)) => store_op.flag


\* The step is an archive_dataset call: a call, not a clock tick, and the
\* record written is that of archive_dataset.
ArchiveCalled ==
    /\ store_calls' = store_calls + 1
    /\ clock' = clock
    /\ store_op'.op = "archive"

C18_ScratchRemovedAfterImport ==
    store_op.op = "import" => (~scratch.exists /\ scratch.entries = {})

\* C18's cases: an import whose unpacking failed, and an import that moved
\* one of several extracted entries.
C18_Witness ==
    /\ store_op.op = "import"
    /\ store_op.err = "ReadError"
    /\ \E id \in DOMAIN active :
          active[id].kind = "zip" /\ Cardinality(ZipEntries(active[id])) > 1


\* Whether the identifier is the name followed by a timestamp and nothing else.
IsNameAndTimestamp(id, name) ==
    /\ id.ext = ""
    /\ Len(id.parts) = Len(name) + 2
    /\ SubSeq(id.parts, 1, Len(name)) = name

\* C19: import_dataset of the archive that export_dataset(N) has just made of
\* the dataset named N creates the active directory N_<timestamp of now> when
\* no new_name is given, and new_name_<timestamp of now> otherwise.
C19_ImportKeepsOriginalName ==
    [][ ( /\ store_op.op = "export"
          /\ Returned(store_op)
          /\ IsNameAndTimestamp(store_op.id, store_op.name)
          /\ store_calls' = store_calls + 1
          /\ clock' = clock
          /\ store_op'.op = "import"
          /\ Returned(store_op')
          /\ store_op'.zip = store_op.zip )
        => store_op'.id = DatasetId(IF store_op'.name = NoName
                                    THEN store_op.name ELSE store_op'.name, clock)
      ]_vars

\* C20: a lookup by name N in archive_dataset, export_dataset,
\* get_dataset_info and delete_dataset resolves only to a directory whose
\* identifier is N followed by an underscore and a timestamp.
C20_LookupResolvesExactName ==
    ( /\ store_op.op \in {"archive", "export", "info", "delete"}
      /\ Returned(store_op)
      /\ store_op.id # NoId )
    => IsNameAndTimestamp(store_op.id, store_op.name)

\* ---- helpers of the claims on filename derivation
\* Two different calls of _generate_filename among those made so far.
NamedPairs ==
    {p \in (DOMAIN wstats.named) \X (DOMAIN wstats.named) : p[1] < p[2]}
SameNameKeys(a, b) ==
    /\ a.metadata.seed = b.metadata.seed
    /\ a.metadata.cfg = b.metadata.cfg
    /\ PromptPrefix(a.metadata.prompt) = PromptPrefix(b.metadata.prompt)
DifferentBytesDifferentNames ==
    \A p \in NamedPairs :
        LET a == wstats.named[p[1]]
            b == wstats.named[p[2]]
        IN (SameNameKeys(a, b) /\ a.bytes # b.bytes) => a.filename # b.filename

\* C21 (as stated): two add_image calls with the same seed, cfg-scale and prompt
\* prefix but different bytes get different filenames, and two calls with the
\* same bytes and the same metadata get the same filename.
C21_ContentAddressedNames ==
    /\ DifferentBytesDifferentNames
    /\ \A p \in NamedPairs :
          LET a == wstats.named[p[1]]
              b == wstats.named[p[2]]
          IN (a.bytes = b.bytes /\ a.metadata = b.metadata) => a.filename = b.filename

\* C21 (amended): different bytes get different filenames as stated; the same
\* bytes and the same metadata get the same filename when the descriptive
\* derivation succeeds (request_parameters is a mapping), and a call that falls
\* back to the sequential name gets a name no earlier call got.
C21_ContentAddressedUnlessSequential ==
    /\ DifferentBytesDifferentNames
    /\ \A p \in NamedPairs :
          LET a == wstats.named[p[1]]
              b == wstats.named[p[2]]
          IN /\ (a.bytes = b.bytes /\ a.metadata = b.metadata /\ a.metadata.kind # "notmap")
                   => a.filename = b.filename
             /\ (a.metadata.kind = "notmap" \/ b.metadata.kind = "notmap")
                   => a.filename # b.filename

\* Three calls named: two with the same descriptive name, a third with the same
\* name keys and other bytes, so both halves of the claim have a case.
C21_Witness ==
    \E p \in NamedPairs, q \in NamedPairs :
        /\ wstats.named[p[1]].bytes = wstats.named[p[2]].bytes
        /\ wstats.named[p[1]].metadata = wstats.named[p[2]].metadata
        /\ wstats.named[p[1]].metadata.kind = "map"
        /\ wstats.named[p[1]].filename = wstats.named[p[2]].filename
        /\ SameNameKeys(wstats.named[q[1]], wstats.named[q[2]])
        /\ wstats.named[q[1]].bytes # wstats.named[q[2]].bytes

\* ---- helpers of the claims on the end of a run
\* The positions of the events with done set.
DoneEvents == {k \in DOMAIN events : events[k].done}
\* The final report: the terminal event and what is published with it.
TerminalReport == {events[k] : k \in {j \in DOMAIN events : \E d \in DoneEvents : d <= j}}
ExpandedSequence == GenerateParameterCombinations(run_input.base, run_input.variations)

\* C22: when a run is Completed, generated + failed is the number of
\* ParameterSets of the expanded sequence, and the terminal report carries the
\* generated count, the failed count and, whenever finalize_dataset returned
\* one, the metadata log path.
C22_CompletedCountsAddUp ==
    outcome = "Completed" =>
        /\ worker.generated_count + worker.failed_count = Len(ExpandedSequence)
        /\ \E d \in DoneEvents :
              /\ events[d].generated = worker.generated_count
              /\ events[d].failed = worker.failed_count
        /\ finalize_result = "metadata_path"
              => \E ev \in TerminalReport : ev.path = "metadata_path"

\* A Completed run with one item saved and one failed, finalized with a path.
C22_Witness ==
    /\ outcome = "Completed"
    /\ worker.generated_count = 1
    /\ worker.failed_count = 1
    /\ finalize_result = "metadata_path"
    /\ \E ev \in TerminalReport : ev.path = "metadata_path"

IsPrefix(a, b) == Len(a) <= Len(b) /\ \A k \in DOMAIN a : a[k] = b[k]
RequestInFlight == worker_pc = "in_flight"

\* C24: within one run the ParameterSets of the expanded sequence are passed
\* to generate_image once each and in enumeration order (all of them when the
\* run completes), a call is issued only when no request is in flight, and a
\* failed request is not sent again.
C24_OneCallPerItemInOrder ==
    /\ [](IsPrefix(sent, ExpandedSequence))
    /\ [](outcome = "Completed" => sent = ExpandedSequence)
    /\ [][ sent' # sent
             => /\ ~RequestInFlight
                /\ RequestInFlight'
                /\ sent' = Append(sent, ExpandedSequence[Len(sent) + 1])
         ]_vars

\* A completed run of two items whose first request failed.
C24_Witness ==
    /\ outcome = "Completed"
    /\ Len(sent) = 2
    /\ \E k \in DOMAIN events : events[k].type = "item_failed" /\ events[k].item = 1

\* An error was reported: the worker's error event, or run_generation's
\* 'Error initializing A1111 client' line.
ErrorReported ==
    \E k \in DOMAIN events : events[k].error # "" \/ events[k].type = "client_error"

\* C25: when the client's availability check fails, the run ends Failed with
\* an error reported and no generate call is issued in that run.
C25_InitFailureIsRunLevel ==
    worker.backend = "client_error" =>
        /\ outcome = "Failed"
        /\ ErrorReported
        /\ sent = <<>>
        /\ worker_pc \in {"returning", "exited"}

\* The worker has returned after a failed availability check, its error event
\* the last one published.
C25_Witness ==
    /\ worker.backend = "client_error"
    /\ run_input.entry = "ui"
    /\ worker_pc = "exited"
    /\ events[Len(events)].done
    /\ events[Len(events)].error = "RuntimeError"

\* ---- helpers of the observer's claims
AtRest == observer.pc = "idle" /\ observer.thread = "started"

\* C26: every entry the worker puts on the queue is handled by the polling
\* script once and in the order of the puts: nothing is taken from the queue
\* without being handled, and once the script has stopped polling every entry
\* has been handled.
C26_EveryEventDeliveredInOrder ==
    /\ IsPrefix(observer.delivered, events)
    /\ observer.taken = 1..Len(observer.delivered)
    /\ AtRest => observer.delivered = events

\* ---- helpers of the claim on iterating twice
Reiterated == param_combinations.state = "reiterated"

C28_NoErrorAfterNormalFinish ==
    outcome = "Completed" =>
        /\ observer.error_message = ""
        /\ observer.status_message # "Error: Thread stopped."

\* ---- helpers of the claim on what delete removes
\* A step that is a delete_dataset call which archived an active dataset
\* (archive_first) and returned.
DeleteArchivedFirst ==
    /\ store_calls' = store_calls + 1
    /\ clock' = clock
    /\ store_op'.op = "delete"
    /\ Returned(store_op')
    /\ store_op'.moved # NoId

\* C29: delete_dataset(name, archive_first=True) on an active dataset removes
\* the directory it has just archived and no other: the active region loses
\* that directory only, and the archive region is as it was before the call.
C29_DeleteRemovesOnlyWhatItArchived ==
    [][ (DeleteArchivedFirst /\ store_op'.moved \notin DOMAIN archive)
          => /\ active' = Remove(active, store_op'.moved)
             /\ archive' = archive
      ]_vars

\* ---- helpers of the claim on the terminal event
TerminalDelivered == \E k \in DOMAIN observer.delivered : observer.delivered[k].done

\* C30: every started run eventually publishes a terminal event (done set),
\* Completed or Failed; there is exactly one, the worker publishes nothing
\* after it, and once the script has handled it is_running is false.
C30_OneTerminalEvent ==
    /\ [](Cardinality(DoneEvents) <= 1)
    /\ [](\A d \in DoneEvents : d = Len(events))
    /\ [](TerminalDelivered => ~observer.is_running)
    /\ (observer.thread = "started") ~> (DoneEvents # {})

\* A run that failed in its initialization: the worker has exited, its one
\* terminal event was handled and is_running is false.
C30_Witness ==
    /\ outcome = "Failed"
    /\ worker_pc = "exited"
    /\ TerminalDelivered
    /\ observer.delivered = events
    /\ ~observer.is_running

\* The threads inside the body of _append_metadata's with block.
Appending == {t \in WThreads : wpc[t] \in {"append", "unlock"}}

\* C31: concurrent add_image calls on one DatasetBuilder serialize their
\* appends to the metadata log: at most one thread is inside the append, the
\* lock is held exactly by that thread (so it is free again after every exit,
\* the error exit included), every line of the log is the whole record of one
\* call, and a thread waiting for the lock finishes its call.
C31_AppendsSerialized ==
    /\ [](Cardinality(Appending) <= 1)
    /\ [](\A t \in WThreads : (t \in Appending) <=> (file_lock = t))
    /\ [](\A k \in 1..Len(metadata_log) :
            \E n \in 1..Len(wstats.named) :
                /\ metadata_log[k].filename = wstats.named[n].filename
                /\ metadata_log[k].metadata = wstats.named[n].metadata)
    /\ \A t \in WThreads : (wpc[t] = "lock") ~> (wpc[t] = "idle")

\* One thread waits for the lock while the other, whose append raised, is
\* about to leave the with block.
C31_Witness ==
    /\ wpc["t1"] = "lock"
    /\ wpc["t2"] = "unlock"
    /\ file_lock = "t2"
    /\ wstats.io_faults >= 1

\* No thread is inside an add_image call.
AllIdle == \A t \in WThreads : wpc[t] = "idle"

\* The calls whose name fell back to the sequential form.
SequentialCalls == {n \in 1..Len(wstats.named) : wstats.named[n].metadata.kind = "notmap"}

\* C32: under concurrent add_image calls on one DatasetBuilder no update of
\* the image counter is lost: once the calls have returned, image_count is
\* the number of calls with non-empty bytes, and any two calls that fell back
\* to sequential naming got different image_NNNNN filenames.
C32_NoLostCounterUpdate ==
    /\ AllIdle => image_count = wstats.nonempty
    /\ \A m, n \in SequentialCalls :
          m # n => wstats.named[m].filename # wstats.named[n].filename

\* The worker is between two items or past the loop.
BetweenItems == worker_pc \in {"loop", "finalize", "returning", "exited"}

\* C33: whenever the service call for a ParameterSet came back with non-empty
\* image bytes, the image went to the writer and the item was counted as
\* generated, also when the generation info that came with it is empty.
C33_BytesAreForwardedAndCounted ==
    BetweenItems =>
        /\ worker.generated_count = worker.with_bytes
        /\ wstats.nonempty = worker.with_bytes

\* The items the worker has finished with: committed or counted as failed.
Processed == worker.generated_count + worker.failed_count

\* The progress events of the run, by position in the queue.
ProgressEvents == {k \in 1..Len(events) : events[k].type = "progress"}

\* C34: the progress event of an item is in the queue only after the item
\* has been processed (its service call has returned and its result has been
\* committed or counted as failed), so a progress fraction of 1.0 is there
\* only after the last item has been processed.
C34_ProgressAfterProcessing ==
    /\ \A k \in ProgressEvents : events[k].item <= Processed
    /\ \A k \in ProgressEvents :
          events[k].num = events[k].den => Processed = worker.total_combinations

\* C35: on the dataset management page the details shown and the Archive,
\* Export and Delete actions apply to the dataset directory the user
\* selected: whenever a call made from the page found a directory, it is the
\* selected one, whatever datasets the store holds.
C35_PageActsOnSelected ==
    (store_op.selected # NoId /\ Returned(store_op)) => store_op.id = store_op.selected

\* The calls (by position in wstats.named) whose metadata is malformed.
MalformedCalls ==
    {n \in 1..Len(wstats.named) : wstats.named[n].metadata.kind \in {"missing", "notmap"}}

\* The call's image is in images_dir under its name and its record is in the
\* log.
PersistedAndLogged(c) ==
    /\ c.filename \in DOMAIN images_dir
    /\ images_dir[c.filename] = c.bytes
    /\ \E k \in 1..Len(metadata_log) :
          metadata_log[k] = [filename |-> c.filename, metadata |-> c.metadata]

\* No call is running and no write has raised.
CallsCompleted == wpc[WriterCaller] = "idle" /\ wstats.io_faults = 0

====
